---- MODULE Spec2Model ----
(***************************************************************************)
(* HCI user-channel socket of kirbo/ble (package socket, linux build).     *)
(*                                                                         *)
(* Four specifications over one set of variables:                          *)
(*   Spec      Read / Write / Close called concurrently on one Socket      *)
(*   SpecOpen  NewSocket(id) and the open sequence                         *)
(*   SpecCtl   the transient-socket operations Up, Down and Info           *)
(*   SpecIoctl the ioctl request codes built by ioR and ioW                *)
(* The kernel (descriptor table, ioctl / bind / read / write outcomes) is  *)
(* the environment: every system call returns one of the outcomes the      *)
(* kernel can produce.                                                     *)
(***************************************************************************)
EXTENDS Integers, Sequences, FiniteSets, TLC

(* ------------------------------ bounds --------------------------------- *)
NumReaders == 2
NumWriters == 2
NumClosers == 2
MaxDevId   == 3    \* controllers are hci0 .. hci<MaxDevId>
MaxDevNum  == 3    \* the most devices the kernel reports in a device list
MaxFds     == 2    \* descriptors the process may have open at once
MaxCtlCalls == 3   \* calls of Up / Down / Info in one behaviour

(* --------------------------- program constants ------------------------- *)
hciMaxDevices == 16
ioctlSize == 4
typHCI == 72
WordBits == 64     \* uintptr on linux/amd64

(* ------------------------------ threads -------------------------------- *)
Readers == {"r"} \X (1..NumReaders)
Writers == {"w"} \X (1..NumWriters)
Closers == {"c"} \X (1..NumClosers)
None    == <<"none", 0>>

(* The descriptor the Socket of Spec wraps, and the frames written to it.  *)
SockFd        == 3
ShutdownFrame == <<1, 9, 16, 0>>
AppFrames     == {<<1, 3, 12, 0>>}

VARIABLES
  fds,        \* kernel: the descriptors that are open in this process
  closed,     \* Socket.closed: TRUE once the channel has been closed
  rmu,        \* Socket.rmu: the thread holding it, or None
  wmu,        \* Socket.wmu: the thread holding it, or None
  kr,         \* kernel: threads with a read(2) in progress on the descriptor
  kw,         \* kernel: [who, buf] of the write(2) calls in progress
  rpc, rres,  \* per reader: position in Read, result of its last Read
  wpc,        \* per writer: position in Write
  cpc,        \* per closer: position in Close
  cwres,      \* per closer: outcome of the shutdown-frame write (dropped)
  cres,       \* per closer: what Close returned
  releases,   \* number of close(2) calls issued on the descriptor
  relres,     \* kernel: what close(2) on the descriptor answered
  staleRead,  \* a read(2) was issued on the descriptor after its release
  panicked,   \* the process died of a run-time panic
  held,       \* kernel: controllers whose user channel another socket holds
  bound,      \* kernel: the controller NewSocket's descriptor is bound to, or -1
  npc,        \* position in NewSocket / open
  nid,        \* NewSocket's argument id
  nfd,        \* the descriptor NewSocket created (0: none)
  req,        \* devListRequest as the kernel filled it: [devNum, ids]
  cur,        \* the id open is running on (the loop variable of NewSocket)
  msg,        \* NewSocket's msg, as a sequence of text fragments
  log,        \* the calls NewSocket has issued: [op, dev, err], err "" = success
  nsock,      \* the *Socket NewSocket returned: <<>> is nil
  nerr,       \* the error NewSocket returned: <<>> is nil
  tpc,        \* position in the running Up / Down / Info call
  top,        \* which of Up, Down, Info is running
  tid,        \* its argument
  tfd,        \* the transient descriptor of the call (0: none)
  tioctls,    \* ioctls the call has issued on tfd
  tinfo,      \* the *HciDevInfo Info returned: <<>> is nil
  terr,       \* the error the call returned: <<>> is nil
  tcalls,     \* calls of Up / Down / Info made so far
  it, inr, isize,  \* the arguments t, nr, size given to ioR and ioW
  icalls,     \* which of ioR ("R") and ioW ("W") have been evaluated
  rcode,      \* what ioR returned, as the set of the bits that are 1
  wcode       \* what ioW returned, as the set of the bits that are 1

hvars_nofds == <<closed, rmu, wmu, kr, kw, rpc, rres, wpc, cpc, cwres,
                 cres, releases, relres, staleRead, panicked>>

hvars == <<fds, hvars_nofds>>

ovars == <<held, bound, npc, nid, nfd, req, cur, msg, log, nsock, nerr>>

tvars == <<tpc, top, tid, tfd, tioctls, tinfo, terr, tcalls>>

ivars == <<it, inr, isize, icalls, rcode, wcode>>

vars == <<hvars, ovars, tvars, ivars>>

DevIds == 0..MaxDevId
FdNums == 3..(2 + MaxFds)

(* ------------------------------ Socket --------------------------------- *)
(* &Socket{fd: fd, closed: make(chan struct{})}: the channel is open and   *)
(* both mutexes have their zero value (unlocked).                          *)
MkSocket(fd) == [fd |-> fd, closed |-> FALSE, rmu |-> None, wmu |-> None]

HandleInit ==
  /\ closed = MkSocket(SockFd).closed
  /\ rmu = MkSocket(SockFd).rmu
  /\ wmu = MkSocket(SockFd).wmu
  /\ kr = {}
  /\ kw = {}
  /\ rpc = [r \in Readers |-> "idle"]
  /\ rres = [r \in Readers |-> "none"]
  /\ wpc = [w \in Writers |-> "idle"]
  /\ cpc = [c \in Closers |-> "idle"]
  /\ cwres = [c \in Closers |-> "none"]
  /\ cres = [c \in Closers |-> "none"]
  /\ releases = 0
  /\ relres = "none"
  /\ staleRead = FALSE
  /\ panicked = FALSE

(* NewSocket has not been called.                                          *)
OpenInit ==
  /\ bound = -1
  /\ npc = "idle"
  /\ nid = -1
  /\ nfd = 0
  /\ req = [devNum |-> 0, ids |-> <<>>]
  /\ cur = 0
  /\ msg = <<>>
  /\ log = <<>>
  /\ nsock = <<>>
  /\ nerr = <<>>

(* No call of Up, Down or Info has been made.                              *)
CtlInit ==
  /\ tpc = "idle"
  /\ top = "none"
  /\ tid = 0
  /\ tfd = 0
  /\ tioctls = 0
  /\ tinfo = <<>>
  /\ terr = <<>>
  /\ tcalls = 0

(* ioR and ioW have not been evaluated.                                    *)
IoctlInit ==
  /\ it = typHCI
  /\ inr = 0
  /\ isize = ioctlSize
  /\ icalls = {}
  /\ rcode = {}
  /\ wcode = {}

(* Spec starts from the Socket a successful NewSocket returned.            *)
Init ==
  /\ fds = {SockFd}
  /\ HandleInit
  /\ held = {}
  /\ OpenInit
  /\ CtlInit
  /\ IoctlInit

(* SpecCtl starts with no descriptor open.                                 *)
InitCtl ==
  /\ fds = {}
  /\ HandleInit
  /\ held = {}
  /\ OpenInit
  /\ CtlInit
  /\ IoctlInit

(* SpecOpen starts before NewSocket is called, with any set of controllers *)
(* held by other sockets.                                                  *)
InitOpen ==
  /\ fds = {}
  /\ HandleInit
  /\ held \in SUBSET DevIds
  /\ OpenInit
  /\ CtlInit
  /\ IoctlInit

(* A lock that never blocks.                                               *)
MutexNeverBlocks(mu) == TRUE

(* sync.Mutex.Lock: blocks until the mutex is free.                        *)
MutexFree(mu) == mu = None

(* The mutex Read takes, the one Write takes, and the one Close takes      *)
(* around the release of the descriptor.                                   *)
WriteOnReadMutex == "rmu"
CloseOnWriteMutex == "wmu"

ReadMutex == "rmu"
WriteMutex == "wmu"
CloseMutex == "rmu"

Held(which) == IF which = "rmu" THEN rmu ELSE wmu

Acquire(which, t) ==
  /\ MutexFree(Held(which))
  /\ IF which = "rmu"
       THEN rmu' = t /\ UNCHANGED wmu
       ELSE wmu' = t /\ UNCHANGED rmu

Release(which, t) ==
  /\ Held(which) = t
  /\ IF which = "rmu"
       THEN rmu' = None /\ UNCHANGED wmu
       ELSE wmu' = None /\ UNCHANGED rmu

(* ------------------------------- Read ---------------------------------- *)
(* Read without the look at s.closed.                                      *)
ReadNoCheck(r) ==
  /\ ~panicked
  /\ rpc[r] = "idle"
  /\ rpc' = [rpc EXCEPT ![r] = "lock"]
  /\ rres' = [rres EXCEPT ![r] = "none"]
  /\ UNCHANGED <<fds, closed, rmu, wmu, kr, kw, wpc, cpc, cwres, cres,
                 releases, relres, staleRead, panicked,
                 ovars, tvars, ivars>>

(* select { case <-s.closed: return 0, io.EOF; default: }                  *)
ReadCheck(r) ==
  /\ ~panicked
  /\ rpc[r] = "idle"
  /\ IF closed
       THEN /\ rres' = [rres EXCEPT ![r] = "EOF"]
            /\ UNCHANGED rpc
       ELSE /\ rpc' = [rpc EXCEPT ![r] = "lock"]
            /\ rres' = [rres EXCEPT ![r] = "none"]
  /\ UNCHANGED <<fds, closed, rmu, wmu, kr, kw, wpc, cpc, cwres, cres,
                 releases, relres, staleRead, panicked,
                 ovars, tvars, ivars>>

(* s.rmu.Lock(); the thread then enters unix.Read(s.fd, p).                *)
ReadLock(r) ==
  /\ ~panicked
  /\ rpc[r] = "lock"
  /\ Acquire(ReadMutex, r)
  /\ rpc' = [rpc EXCEPT ![r] = "sys"]
  /\ kr' = kr \cup {r}
  /\ staleRead' = (staleRead \/ SockFd \notin fds)
  /\ UNCHANGED <<fds, closed, kw, rres, wpc, cpc, cwres, cres,
                 releases, relres, panicked,
                 ovars, tvars, ivars>>

(* unix.Read returns: data arrived, or the call failed. On a descriptor    *)
(* that is no longer open it can only fail (EBADF).                        *)
ReadSys(r) ==
  /\ ~panicked
  /\ rpc[r] = "sys"
  /\ \E out \in (IF SockFd \in fds THEN {"ok", "err"} ELSE {"err"}) :
       rres' = [rres EXCEPT ![r] = out]
  /\ rpc' = [rpc EXCEPT ![r] = "unlock"]
  /\ kr' = kr \ {r}
  /\ UNCHANGED <<fds, closed, rmu, wmu, kw, wpc, cpc, cwres, cres,
                 releases, relres, staleRead, panicked,
                 ovars, tvars, ivars>>

(* defer s.rmu.Unlock(), then return n, errors.Wrap(err, ...).             *)
ReadUnlock(r) ==
  /\ ~panicked
  /\ rpc[r] = "unlock"
  /\ Release(ReadMutex, r)
  /\ rpc' = [rpc EXCEPT ![r] = "idle"]
  /\ UNCHANGED <<fds, closed, kr, kw, rres, wpc, cpc, cwres, cres,
                 releases, relres, staleRead, panicked,
                 ovars, tvars, ivars>>

(* ------------------------------- Write --------------------------------- *)
(* Write(p) is called: s.wmu.Lock() is its first statement, and a caller   *)
(* waiting for the mutex has changed nothing yet. With the mutex the       *)
(* thread enters unix.Write(s.fd, p).                                      *)
WriteLock(w) ==
  /\ ~panicked
  /\ wpc[w] = "idle"
  /\ Acquire(WriteMutex, w)
  /\ wpc' = [wpc EXCEPT ![w] = "sys"]
  /\ \E p \in AppFrames : kw' = kw \cup {[who |-> w, buf |-> p]}
  /\ UNCHANGED <<fds, closed, kr, rpc, rres, cpc, cwres, cres,
                 releases, relres, staleRead, panicked,
                 ovars, tvars, ivars>>

(* unix.Write returns; Write hands its result (n, err) to its caller and   *)
(* keeps nothing of it.                                                    *)
WriteSys(w) ==
  /\ ~panicked
  /\ wpc[w] = "sys"
  /\ wpc' = [wpc EXCEPT ![w] = "unlock"]
  /\ kw' = {x \in kw : x.who # w}
  /\ UNCHANGED <<fds, closed, rmu, wmu, kr, rpc, rres, cpc, cwres, cres,
                 releases, relres, staleRead, panicked,
                 ovars, tvars, ivars>>

(* defer s.wmu.Unlock(), then return.                                      *)
WriteUnlock(w) ==
  /\ ~panicked
  /\ wpc[w] = "unlock"
  /\ Release(WriteMutex, w)
  /\ wpc' = [wpc EXCEPT ![w] = "idle"]
  /\ UNCHANGED <<fds, closed, kr, kw, rpc, rres, cpc, cwres, cres,
                 releases, relres, staleRead, panicked,
                 ovars, tvars, ivars>>

(* ------------------------------- Close --------------------------------- *)
(* A Close that goes on when the channel is closed already.                *)
CloseSignalNoPanic(c) ==
  /\ ~panicked
  /\ cpc[c] = "idle"
  /\ closed' = TRUE
  /\ cpc' = [cpc EXCEPT ![c] = "wlock"]
  /\ UNCHANGED <<fds, rmu, wmu, kr, kw, rpc, rres, wpc, cwres, cres,
                 releases, relres, staleRead, panicked,
                 ovars, tvars, ivars>>

(* close(s.closed): closing a closed channel panics.                       *)
CloseSignal(c) ==
  /\ ~panicked
  /\ cpc[c] = "idle"
  /\ IF closed
       THEN /\ panicked' = TRUE
            /\ cpc' = [cpc EXCEPT ![c] = "panic"]
            /\ UNCHANGED closed
       ELSE /\ closed' = TRUE
            /\ cpc' = [cpc EXCEPT ![c] = "wlock"]
            /\ UNCHANGED panicked
  /\ UNCHANGED <<fds, rmu, wmu, kr, kw, rpc, rres, wpc, cwres, cres,
                 releases, relres, staleRead,
                 ovars, tvars, ivars>>

(* s.Write([]byte{0x01, 0x09, 0x10, 0x00}): s.wmu.Lock() ...               *)
CloseWriteLock(c) ==
  /\ ~panicked
  /\ cpc[c] = "wlock"
  /\ Acquire(WriteMutex, c)
  /\ cpc' = [cpc EXCEPT ![c] = "wsys"]
  /\ kw' = kw \cup {[who |-> c, buf |-> ShutdownFrame]}
  /\ UNCHANGED <<fds, closed, kr, rpc, rres, wpc, cwres, cres,
                 releases, relres, staleRead, panicked,
                 ovars, tvars, ivars>>

(* ... unix.Write returns ...                                              *)
CloseWriteSys(c) ==
  /\ ~panicked
  /\ cpc[c] = "wsys"
  /\ \E out \in (IF SockFd \in fds THEN {"ok", "err"} ELSE {"err"}) :
       cwres' = [cwres EXCEPT ![c] = out]
  /\ cpc' = [cpc EXCEPT ![c] = "wunlock"]
  /\ kw' = {x \in kw : x.who # c}
  /\ UNCHANGED <<fds, closed, rmu, wmu, kr, rpc, rres, wpc, cres,
                 releases, relres, staleRead, panicked,
                 ovars, tvars, ivars>>

(* Close giving up when the shutdown-frame write failed.                   *)
CloseWriteUnlockChecked(c) ==
  /\ ~panicked
  /\ cpc[c] = "wunlock"
  /\ Release(WriteMutex, c)
  /\ cpc' = [cpc EXCEPT ![c] = IF cwres[c] = "err" THEN "done" ELSE "lock"]
  /\ UNCHANGED <<fds, closed, kr, kw, rpc, rres, wpc, cwres, cres,
                 releases, relres, staleRead, panicked,
                 ovars, tvars, ivars>>

(* ... defer s.wmu.Unlock(); Close drops what Write returned.              *)
CloseWriteUnlock(c) ==
  /\ ~panicked
  /\ cpc[c] = "wunlock"
  /\ Release(WriteMutex, c)
  /\ cpc' = [cpc EXCEPT ![c] = "lock"]
  /\ UNCHANGED <<fds, closed, kr, kw, rpc, rres, wpc, cwres, cres,
                 releases, relres, staleRead, panicked,
                 ovars, tvars, ivars>>

(* s.rmu.Lock()                                                            *)
CloseLock(c) ==
  /\ ~panicked
  /\ cpc[c] = "lock"
  /\ Acquire(CloseMutex, c)
  /\ cpc' = [cpc EXCEPT ![c] = "release"]
  /\ UNCHANGED <<fds, closed, kr, kw, rpc, rres, wpc, cwres, cres,
                 releases, relres, staleRead, panicked,
                 ovars, tvars, ivars>>

(* A Close that reports the failure of its shutdown-frame write.           *)
CloseReleaseWriteErr(c) ==
  /\ ~panicked
  /\ cpc[c] = "release"
  /\ fds' = fds \ {SockFd}
  /\ releases' = releases + 1
  /\ \E out \in (IF SockFd \in fds THEN {"ok", "err"} ELSE {"err"}) :
       /\ relres' = out
       /\ cres' = [cres EXCEPT ![c] = IF cwres[c] = "err" THEN "err" ELSE out]
  /\ cpc' = [cpc EXCEPT ![c] = "unlock"]
  /\ UNCHANGED <<closed, rmu, wmu, kr, kw, rpc, rres, wpc, cwres,
                 staleRead, panicked,
                 ovars, tvars, ivars>>

(* unix.Close(s.fd): the descriptor is gone whatever close(2) returns.     *)
(* Close returns errors.Wrap of that: nil ("ok") or the wrapped failure.   *)
CloseRelease(c) ==
  /\ ~panicked
  /\ cpc[c] = "release"
  /\ fds' = fds \ {SockFd}
  /\ releases' = releases + 1
  /\ \E out \in (IF SockFd \in fds THEN {"ok", "err"} ELSE {"err"}) :
       /\ relres' = out
       /\ cres' = [cres EXCEPT ![c] = out]
  /\ cpc' = [cpc EXCEPT ![c] = "unlock"]
  /\ UNCHANGED <<closed, rmu, wmu, kr, kw, rpc, rres, wpc, cwres,
                 staleRead, panicked,
                 ovars, tvars, ivars>>

(* defer s.rmu.Unlock(), then return errors.Wrap(...).                     *)
CloseUnlock(c) ==
  /\ ~panicked
  /\ cpc[c] = "unlock"
  /\ Release(CloseMutex, c)
  /\ cpc' = [cpc EXCEPT ![c] = "done"]
  /\ UNCHANGED <<fds, closed, kr, kw, rpc, rres, wpc, cwres, cres,
                 releases, relres, staleRead, panicked,
                 ovars, tvars, ivars>>

Next ==
  \/ \E r \in Readers : ReadCheck(r)
  \/ \E r \in Readers : ReadLock(r)
  \/ \E r \in Readers : ReadSys(r)
  \/ \E r \in Readers : ReadUnlock(r)
  \/ \E w \in Writers : WriteLock(w)
  \/ \E w \in Writers : WriteSys(w)
  \/ \E w \in Writers : WriteUnlock(w)
  \/ \E c \in Closers : CloseSignal(c)
  \/ \E c \in Closers : CloseWriteLock(c)
  \/ \E c \in Closers : CloseWriteSys(c)
  \/ \E c \in Closers : CloseWriteUnlock(c)
  \/ \E c \in Closers : CloseLock(c)
  \/ \E c \in Closers : CloseRelease(c)
  \/ \E c \in Closers : CloseUnlock(c)

Spec == Init /\ [][Next]_vars

(* ============================ NewSocket ================================ *)
(* Text is a sequence of fragments; fmt's %d renders a number in decimal.  *)
Digit(n) == <<"0", "1", "2", "3", "4", "5", "6", "7", "8", "9">>[n + 1]

RECURSIVE Itoa(_)
Itoa(n) == IF n < 10 THEN <<Digit(n)>> ELSE Itoa(n \div 10) \o <<Digit(n % 10)>>

(* Handing the error on as it came, without the cause.                     *)
WrapNoCause(err, m) == err

(* errors.Wrap(err, m).Error() is m + ": " + err.Error().                  *)
Wrap(err, m) == <<m, ": ">> \o err

(* An entry of msg that leaves the index out.                              *)
SprintfNoId(id, err) == <<"(hci">> \o <<": ">> \o err \o <<")">>

(* fmt.Sprintf("(hci%d: %s)", id, err)                                     *)
SprintfHci(id, err) == <<"(hci">> \o Itoa(id) \o <<": ">> \o err \o <<")">>

(* errors.Errorf("no devices available: %s", msg)                          *)
ErrorfNoDevices(m) == <<"no devices available: ">> \o m

(* The errno values the kernel answers a failing call with.                *)
IoctlErrnos == {"ENODEV"}
SocketErrnos == {"EAFNOSUPPORT"}

(* socket(2) hands out the lowest descriptor that is free.                 *)
FreeFds == FdNums \ fds
LowestFree == CHOOSE f \in FreeFds : \A g \in FreeFds : f <= g

(* What HCIGETDEVLIST can put in the request: dev_num and that many ids,   *)
(* in ascending order (controllers may be missing from the numbering).     *)
RECURSIVE Ascending(_)
Ascending(S) ==
  IF S = {} THEN <<>>
  ELSE LET m == CHOOSE x \in S : \A y \in S : x <= y
       IN <<m>> \o Ascending(S \ {m})

DevLists ==
  {Ascending(S) : S \in {T \in SUBSET DevIds : Cardinality(T) <= MaxDevNum}}

Logged(op, dev, err) == Append(log, [op |-> op, dev |-> dev, err |-> err])

(* fd, err := unix.Socket(...); then either open(fd, id) or the device     *)
(* list. The call of open is logged as "open".                             *)
NewSocketCall(id) ==
  /\ npc = "idle"
  /\ nid' = id
  /\ \/ /\ FreeFds # {}
        /\ nfd' = LowestFree
        /\ fds' = fds \cup {LowestFree}
        /\ IF id # -1
             THEN /\ cur' = id
                  /\ npc' = "down1"
                  /\ log' = Append(Logged("socket", -1, ""),
                                   [op |-> "open", dev |-> id, err |-> ""])
             ELSE /\ npc' = "list"
                  /\ log' = Logged("socket", -1, "")
                  /\ UNCHANGED cur
        /\ UNCHANGED <<nerr>>
     \/ /\ \E e \in (IF FreeFds = {} THEN {"EMFILE"} ELSE SocketErrnos) :
             /\ nerr' = Wrap(<<e>>, "can't create socket")
             /\ log' = Logged("socket", -1, e)
        /\ npc' = "done"
        /\ UNCHANGED <<nfd, fds, cur>>
  /\ UNCHANGED <<hvars_nofds, held, bound, req, msg, nsock, tvars, ivars>>

(* req := devListRequest{devNum: hciMaxDevices}; ioctl(fd, hciGetDeviceList,*)
(* &req). On failure NewSocket returns at once.                            *)
GetDeviceList ==
  /\ npc = "list"
  /\ \/ \E l \in DevLists :
          /\ Len(l) <= hciMaxDevices
          /\ req' = [devNum |-> Len(l), ids |-> l]
          /\ cur' = 0
          /\ npc' = "loop"
          /\ log' = Logged("list", -1, "")
          /\ UNCHANGED nerr
     \/ \E e \in IoctlErrnos :
          /\ nerr' = Wrap(<<e>>, "can't get device list")
          /\ npc' = "done"
          /\ log' = Logged("list", -1, e)
          /\ UNCHANGED <<req, cur>>
  /\ UNCHANGED <<hvars, held, bound, nid, nfd, msg, nsock, tvars, ivars>>

(* for id := 0; id < int(req.devNum); id++ { s, err := open(fd, id) ... }  *)
(* and, past the loop, return nil, errors.Errorf(...).                     *)
LoopHead ==
  /\ npc = "loop"
  /\ IF cur < req.devNum
       THEN /\ npc' = "down1"
            /\ log' = Logged("open", cur, "")
            /\ UNCHANGED nerr
       ELSE /\ npc' = "done"
            /\ nerr' = ErrorfNoDevices(msg)
            /\ UNCHANGED log
  /\ UNCHANGED <<hvars, held, bound, nid, nfd, req, cur, msg, nsock, tvars, ivars>>

(* open returns (nil, err). By index NewSocket returns that; in the loop   *)
(* it appends the failure to msg and goes on with the next id.             *)
OpenFailed(err) ==
  IF nid # -1
    THEN /\ nerr' = err
         /\ npc' = "done"
         /\ UNCHANGED <<msg, cur>>
    ELSE /\ msg' = msg \o SprintfHci(cur, err)
         /\ cur' = cur + 1
         /\ npc' = "loop"
         /\ UNCHANGED nerr

(* An ioctl of open whose failure is not looked at.                        *)
OpenIoctlIgnoreErr(at, op, cause, to) ==
  /\ npc = at
  /\ npc' = to
  /\ \E e \in {""} \cup IoctlErrnos : log' = Logged(op, cur, e)
  /\ UNCHANGED <<hvars, held, bound, nid, nfd, req, cur, msg, nsock, nerr,
                 tvars, ivars>>

(* One of open's three ioctls: at `at`, ioctl `op`; on success go to `to`. *)
OpenIoctl(at, op, cause, to) ==
  /\ npc = at
  /\ \/ /\ npc' = to
        /\ log' = Logged(op, cur, "")
        /\ UNCHANGED <<nerr, msg, cur>>
     \/ \E e \in IoctlErrnos :
          /\ log' = Logged(op, cur, e)
          /\ OpenFailed(Wrap(<<e>>, cause))
  /\ UNCHANGED <<hvars, held, bound, nid, nfd, req, nsock, tvars, ivars>>

(* ioctl(fd, hciDownDevice, id)                                            *)
OpenDown1 == OpenIoctl("down1", "down", "can't down device", "up")

(* ioctl(fd, hciUpDevice, id)                                              *)
OpenUp == OpenIoctl("up", "up", "can't up device", "down2")

(* open going from the up straight to the bind.                            *)
OpenDown2Skipped ==
  /\ npc = "down2"
  /\ npc' = "bind"
  /\ UNCHANGED <<hvars, held, bound, nid, nfd, req, cur, msg, log, nsock,
                 nerr, tvars, ivars>>

(* ioctl(fd, hciDownDevice, id), again                                     *)
OpenDown2 == OpenIoctl("down2", "down", "can't down device", "bind")

(* unix.Bind(fd, &SockaddrHCI{Dev: id, Channel: HCI_CHANNEL_USER}): the    *)
(* kernel refuses a controller whose user channel is held (EBUSY).         *)
OpenBind ==
  /\ npc = "bind"
  /\ \/ /\ cur \notin held
        /\ bound' = cur
        /\ npc' = "poll"
        /\ log' = Logged("bind", cur, "")
        /\ UNCHANGED <<nerr, msg, cur>>
     \/ \E e \in (IF cur \in held THEN {"EBUSY"} ELSE IoctlErrnos) :
          /\ log' = Logged("bind", cur, e)
          /\ OpenFailed(Wrap(<<e>>, "can't bind socket to hci user channel"))
          /\ UNCHANGED bound
  /\ UNCHANGED <<hvars, held, nid, nfd, req, nsock, tvars, ivars>>

(* unix.Poll(pfds, 20): input is ready, or the 20 ms pass, or poll fails;  *)
(* what Poll returns is not looked at, only pfds[0].Revents.               *)
OpenPoll ==
  /\ npc = "poll"
  /\ \E out \in {"POLLIN", "", "EINTR"} :
       /\ log' = Logged("poll", cur, out)
       /\ npc' = IF out = "POLLIN" THEN "drain" ELSE "construct"
  /\ UNCHANGED <<hvars, held, bound, nid, nfd, req, cur, msg, nsock, nerr, tvars, ivars>>

(* unix.Read(fd, b) with b of 100 bytes; its result is not looked at.      *)
OpenDrain ==
  /\ npc = "drain"
  /\ \E out \in {"", "EIO"} : log' = Logged("read", cur, out)
  /\ npc' = "construct"
  /\ UNCHANGED <<hvars, held, bound, nid, nfd, req, cur, msg, nsock, nerr, tvars, ivars>>

(* open's Socket kept in s without returning from the loop.                *)
OpenConstructNoReturn ==
  /\ npc = "construct"
  /\ nsock' = <<MkSocket(nfd)>>
  /\ log' = Logged("construct", cur, "")
  /\ IF nid # -1
       THEN npc' = "done" /\ UNCHANGED cur
       ELSE npc' = "loop" /\ cur' = cur + 1
  /\ UNCHANGED <<hvars, held, bound, nid, nfd, req, msg, nerr, tvars, ivars>>

(* return &Socket{fd: fd, closed: make(chan struct{})}, nil                *)
OpenConstruct ==
  /\ npc = "construct"
  /\ nsock' = <<MkSocket(nfd)>>
  /\ log' = Logged("construct", cur, "")
  /\ npc' = "done"
  /\ UNCHANGED <<hvars, held, bound, nid, nfd, req, cur, msg, nerr, tvars, ivars>>

NextOpen ==
  \/ \E id \in {-1} \cup DevIds : NewSocketCall(id)
  \/ GetDeviceList
  \/ LoopHead
  \/ OpenDown1
  \/ OpenUp
  \/ OpenDown2
  \/ OpenBind
  \/ OpenPoll
  \/ OpenDrain
  \/ OpenConstruct

SpecOpen == InitOpen /\ [][NextOpen]_vars

(* ========================= Up / Down / Info ============================ *)
(* The ioctl each operation issues and the cause it wraps a failure with.  *)
CtlCause(op) ==
  CASE op = "Up"   -> "can't up device"
    [] op = "Down" -> "can't down device"
    [] op = "Info" -> "can't get device info"

(* fd, err := unix.Socket(AF_BLUETOOTH, SOCK_RAW, BTPROTO_HCI), the first  *)
(* statement of Up, Down and Info alike.                                   *)
CtlCall(op, id) ==
  /\ tpc \in {"idle", "done"}
  /\ tcalls < MaxCtlCalls
  /\ tcalls' = tcalls + 1
  /\ top' = op
  /\ tid' = id
  /\ tioctls' = 0
  /\ tinfo' = <<>>
  /\ \/ /\ FreeFds # {}
        /\ tfd' = LowestFree
        /\ fds' = fds \cup {LowestFree}
        /\ tpc' = "ioctl"
        /\ terr' = <<>>
     \/ /\ \E e \in (IF FreeFds = {} THEN {"EMFILE"} ELSE SocketErrnos) :
             terr' = Wrap(<<e>>, "can't create socket")
        /\ tfd' = 0
        /\ tpc' = "done"
        /\ UNCHANGED fds
  /\ UNCHANGED <<hvars_nofds, ovars, ivars>>

Up(id) == CtlCall("Up", id)
Down(id) == CtlCall("Down", id)
Info(devID) == CtlCall("Info", devID)

(* ioctl(fd, hciUpDevice | hciDownDevice | hciGetDeviceInfo, ...): on      *)
(* failure the operation returns the wrapped error at once.                *)
CtlIoctl ==
  /\ tpc = "ioctl"
  /\ tioctls' = tioctls + 1
  /\ \/ /\ tpc' = "close"
        /\ UNCHANGED terr
     \/ /\ \E e \in IoctlErrnos : terr' = Wrap(<<e>>, CtlCause(top))
        /\ tpc' = "done"
  /\ UNCHANGED <<hvars, ovars, ivars, top, tid, tfd, tinfo, tcalls>>

(* unix.Close(fd). Up and Down return what it returns; Info wraps a        *)
(* failure ("can't close socket") and otherwise returns &req, whose DevID  *)
(* is uint16(devID).                                                       *)
CtlClose ==
  /\ tpc = "close"
  /\ fds' = fds \ {tfd}
  /\ \/ /\ terr' = <<>>
        /\ tinfo' = IF top = "Info" THEN <<[DevID |-> tid % 65536]>> ELSE <<>>
     \/ /\ \E e \in {"EIO"} :
             terr' = IF top = "Info" THEN Wrap(<<e>>, "can't close socket")
                     ELSE <<e>>
        /\ UNCHANGED tinfo
  /\ tpc' = "done"
  /\ UNCHANGED <<hvars_nofds, ovars, ivars, top, tid, tfd, tioctls, tcalls>>

NextCtl ==
  \/ \E id \in DevIds : Up(id)
  \/ \E id \in DevIds : Down(id)
  \/ \E id \in DevIds : Info(id)
  \/ CtlIoctl
  \/ CtlClose

SpecCtl == InitCtl /\ [][NextCtl]_vars

(* ============================ ioR / ioW ================================ *)
(* A uintptr is the set of its bits that are 1 (bit 0 the lowest).         *)
RECURSIVE Pow2(_)
Pow2(n) == IF n = 0 THEN 1 ELSE 2 * Pow2(n - 1)

(* The bits of a number below 2^31.                                        *)
BitsOf(n) == {i \in 0..30 : (n \div Pow2(i)) % 2 = 1}

(* x << k on a uintptr: bits pushed past the top are lost.                 *)
Shl(x, k) == {i + k : i \in x} \cap (0..(WordBits - 1))

(* x | y                                                                   *)
Or(x, y) == x \cup y

(* ioR with the direction of a write.                                      *)
ioRWriteDir(t, nr, size) ==
  Or(Or(Or(Shl(BitsOf(1), 30), Shl(BitsOf(t), 8)), BitsOf(nr)),
     Shl(BitsOf(size), 16))

(* return (2 << 30) | (t << 8) | nr | (size << 16)                         *)
ioR(t, nr, size) ==
  Or(Or(Or(Shl(BitsOf(2), 30), Shl(BitsOf(t), 8)), BitsOf(nr)),
     Shl(BitsOf(size), 16))

(* return (1 << 30) | (t << 8) | nr | (size << 16)                         *)
ioW(t, nr, size) ==
  Or(Or(Or(Shl(BitsOf(1), 30), Shl(BitsOf(t), 8)), BitsOf(nr)),
     Shl(BitsOf(size), 16))

hciUpDevice      == ioW(typHCI, 201, ioctlSize)
hciGetDeviceList == ioR(typHCI, 210, ioctlSize)

(* The arguments tried: the ends of each field, the values the package     *)
(* uses, and one value too wide for each field.                            *)
IoTypes == {0, 1, typHCI, 255, 256}
IoNrs   == {0, 1, 201, 202, 203, 210, 211, 255, 256}
IoSizes == {0, 1, ioctlSize, 16383, 16384}

InitIoctl ==
  /\ fds = {}
  /\ HandleInit
  /\ held = {}
  /\ OpenInit
  /\ CtlInit
  /\ it \in IoTypes
  /\ inr \in IoNrs
  /\ isize \in IoSizes
  /\ icalls = {}
  /\ rcode = {}
  /\ wcode = {}

CallIoR ==
  /\ "R" \notin icalls
  /\ rcode' = ioR(it, inr, isize)
  /\ icalls' = icalls \cup {"R"}
  /\ UNCHANGED <<hvars, ovars, tvars, it, inr, isize, wcode>>

CallIoW ==
  /\ "W" \notin icalls
  /\ wcode' = ioW(it, inr, isize)
  /\ icalls' = icalls \cup {"W"}
  /\ UNCHANGED <<hvars, ovars, tvars, it, inr, isize, rcode>>

NextIoctl == CallIoR \/ CallIoW

SpecIoctl == InitIoctl /\ [][NextIoctl]_vars

(* ======================= Read / Write / Close ========================== *)

(* C1: a Read that starts once Close has signaled s.closed returns          *)
(* end-of-stream: the reader stays out of the lock and of the kernel read   *)
(* (it never leaves "idle", never holds rmu, never enters read(2)), its     *)
(* result is EOF, and the call is never made to wait, whoever holds rmu.    *)
C1_ReadAfterCloseEOF ==
  /\ [][\A r \in Readers :
          (closed /\ rpc[r] = "idle")
            => /\ rpc'[r] = "idle"
               /\ rres'[r] \in {rres[r], "EOF"}
               /\ r \notin kr'
               /\ rmu' # r
               /\ (rres'[r] # rres[r] => kr' = kr /\ rmu' = rmu /\ fds' = fds)]_vars
  /\ [](\A r \in Readers :
          (closed /\ ~panicked /\ rpc[r] = "idle") => ENABLED ReadCheck(r))

(* C1 witness: a reader has got EOF while another reader sits in its       *)
(* kernel read holding rmu and the descriptor is still open.               *)
C1_Witness ==
  \E r, r2 \in Readers :
    /\ r # r2 /\ closed /\ rres[r] = "EOF" /\ rpc[r] = "idle"
    /\ rmu = r2 /\ r2 \in kr /\ SockFd \in fds

(* C2: same-direction calls are serialized: at most one write(2) is in     *)
(* progress on the descriptor, Close's shutdown frame included, and at     *)
(* most one read(2).                                                       *)
C2_SameDirectionSerialized ==
  /\ Cardinality(kw) <= 1
  /\ Cardinality(kr) <= 1
  /\ \A x \in kw : wmu = x.who
  /\ \A r \in kr : rmu = r

(* C2 witness: Close waits for wmu while a Write is inside write(2), and   *)
(* a second Read waits for rmu while a Read is inside read(2).             *)
C2_Witness ==
  /\ \E c \in Closers, w \in Writers :
       cpc[c] = "wlock" /\ [who |-> w, buf |-> <<1, 3, 12, 0>>] \in kw
  /\ \E r, r2 \in Readers : r # r2 /\ r \in kr /\ rpc[r2] = "lock"

(* No Write, and no shutdown-frame write of Close, is between its Lock and *)
(* its Unlock.                                                             *)
NoWriteActive ==
  /\ \A w \in Writers : wpc[w] = "idle"
  /\ \A c \in Closers : cpc[c] \notin {"wsys", "wunlock"}

(* No Read is between its Lock and its Unlock, and no Close holds rmu.     *)
NoReadActive ==
  /\ \A r \in Readers : rpc[r] \notin {"sys", "unlock"}
  /\ \A c \in Closers : cpc[c] \notin {"release", "unlock"}

(* C3: Read and Write do not contend: a Write can take its lock whenever   *)
(* no other write is active, whatever the readers do, and a Read standing  *)
(* at its lock can take it whenever no read is active, whatever the        *)
(* writers do.                                                             *)
C3_ReadWriteIndependent ==
  /\ \A w \in Writers :
       (~panicked /\ NoWriteActive) => ENABLED WriteLock(w)
  /\ \A r \in Readers :
       (~panicked /\ rpc[r] = "lock" /\ NoReadActive) => ENABLED ReadLock(r)

(* C3 witness: one read(2) and one write(2) of a Write call are in         *)
(* progress at the same time on the open descriptor.                       *)
C3_Witness ==
  /\ SockFd \in fds
  /\ \E r \in Readers : r \in kr /\ rmu = r
  /\ \E w \in Writers : wmu = w /\ \E x \in kw : x.who = w

(* C4: one Close issues close(2) exactly once, whatever the shutdown-frame *)
(* write returned: none before Close reaches the release, one after, and   *)
(* never two.                                                              *)
C4_ReleaseExactlyOnce ==
  /\ releases <= 1
  /\ \A c \in Closers :
       /\ cpc[c] \in {"wlock", "wsys", "wunlock", "lock", "release"}
            => releases = 0
       /\ cpc[c] \in {"unlock", "done"} => releases = 1 /\ SockFd \notin fds

(* C4 witness: a Close has returned after its shutdown-frame write failed. *)
C4_Witness ==
  \E c \in Closers : cpc[c] = "done" /\ cwres[c] = "err" /\ releases = 1

(* C5 as claimed: Close is not made to wait by a Read in progress: with a  *)
(* reader inside read(2), a Close that is past its shutdown-frame write    *)
(* can go on to the release.                                               *)
C5_CloseDoesNotWaitForRead ==
  \A c \in Closers :
    (~panicked /\ cpc[c] = "lock" /\ kr # {}) => ENABLED CloseLock(c)

(* C5 amended: Close takes the read lock before the release, so it waits   *)
(* for a Read in progress: while a reader is inside read(2) Close cannot   *)
(* pass its Lock, and it issues close(2) holding rmu (not wmu) with no     *)
(* read(2) in progress.                                                    *)
C5_CloseWaitsForRead ==
  \A c \in Closers :
    /\ (cpc[c] = "lock" /\ kr # {}) => ~ENABLED CloseLock(c)
    /\ cpc[c] = "release" => (kr = {} /\ rmu = c /\ wmu # c)

(* C5 witness: Close is past the shutdown-frame write and stands at its    *)
(* Lock while a Read that began before the signal is inside read(2).       *)
C5_Witness ==
  \E c \in Closers :
    /\ cpc[c] = "lock" /\ cwres[c] # "none" /\ ~panicked
    /\ kr # {} /\ releases = 0

(* ============================ NewSocket ================================ *)
OpenPos == {i \in 1..Len(log) : log[i].op = "open"}

(* The entries of the log where a step of open failed open.                *)
IsStepFailure(e) == e.op \in {"down", "up", "bind"} /\ e.err # ""
FailPos == {i \in 1..Len(log) : IsStepFailure(log[i])}

AutoSelect == nid = -1 /\ npc # "idle"
ListObtained == \E i \in 1..Len(log) : log[i].op = "list" /\ log[i].err = ""

(* C6: NewSocket(-1) runs open on 0, 1, 2, ... in that order, each only    *)
(* after every lower candidate has failed; nothing is issued once an open  *)
(* has succeeded; the Socket returned wraps the descriptor bound to the    *)
(* first candidate that succeeded; and with every candidate failing        *)
(* exactly devNum opens are attempted.                                     *)
C6_AscendingFirstSuccess ==
  AutoSelect =>
    /\ \A i \in OpenPos :
         /\ log[i].dev = Cardinality({j \in OpenPos : j < i})
         /\ log[i].dev < req.devNum
         /\ \A d \in 0..(log[i].dev - 1) :
              /\ \E j \in FailPos : j < i /\ log[j].dev = d
              /\ ~\E j \in 1..(i - 1) : log[j].op = "construct" /\ log[j].dev = d
    /\ \A i \in 1..Len(log) :
         log[i].op = "construct" => (i = Len(log) /\ npc = "done")
    /\ (npc = "done" /\ nsock # <<>>) =>
         /\ nerr = <<>>
         /\ log[Len(log)] = [op |-> "construct", dev |-> bound, err |-> ""]
         /\ nsock[1].fd = nfd
         /\ Cardinality(OpenPos) = bound + 1
         /\ Cardinality(FailPos) = bound
    /\ (npc = "done" /\ nsock = <<>> /\ ListObtained) =>
         /\ Cardinality(OpenPos) = req.devNum
         /\ Cardinality(FailPos) = req.devNum

(* C6 witness: of three candidates the first two failed and the third,     *)
(* hci2, was opened and returned.                                          *)
C6_Witness ==
  /\ AutoSelect /\ npc = "done" /\ req.devNum = 3
  /\ nsock # <<>> /\ bound = 2 /\ Cardinality(FailPos) = 2

(* The text of the failure of one step of open.                            *)
CauseOf(op) ==
  CASE op = "down" -> "can't down device"
    [] op = "up"   -> "can't up device"
    [] op = "bind" -> "can't bind socket to hci user channel"

(* The failure logged for candidate d, rendered as its entry of msg.       *)
FailureOf(d) == log[CHOOSE i \in FailPos : log[i].dev = d]
EntryOf(d) ==
  <<"(hci">> \o Itoa(d) \o
  <<": ", CauseOf(FailureOf(d).op), ": ", FailureOf(d).err, ")">>

RECURSIVE EntriesUpTo(_)
EntriesUpTo(n) == IF n = 0 THEN <<>> ELSE EntriesUpTo(n - 1) \o EntryOf(n - 1)

(* C7: with all N candidates failing NewSocket(-1) returns no Socket and   *)
(* "no devices available: " followed by exactly N entries, the k-th being  *)
(* (hci<k>: <the failure of the open on k>).                               *)
C7_AggregateMessage ==
  (AutoSelect /\ npc = "done" /\ ListObtained /\ nsock = <<>>) =>
    /\ Cardinality(FailPos) = req.devNum
    /\ \A d \in 0..(req.devNum - 1) :
         Cardinality({i \in FailPos : log[i].dev = d}) = 1
    /\ nerr = <<"no devices available: ">> \o EntriesUpTo(req.devNum)
    /\ Cardinality({i \in 1..Len(nerr) : nerr[i] = "(hci"}) = req.devNum

(* C7 witness: three candidates fail at three different steps.             *)
C7_Witness ==
  /\ AutoSelect /\ npc = "done" /\ nsock = <<>>
  /\ nerr = <<"no devices available: ",
              "(hci", "0", ": ", "can't down device", ": ", "ENODEV", ")",
              "(hci", "1", ": ", "can't bind socket to hci user channel",
                ": ", "EBUSY", ")",
              "(hci", "2", ": ", "can't up device", ": ", "ENODEV", ")">>

(* C8 as claimed: when NewSocket(-1) returns a failure, the raw socket it  *)
(* created has been closed.                                                *)
C8_RawSocketClosedOnFailure ==
  (AutoSelect /\ npc = "done" /\ nerr # <<>> /\ nfd # 0) => nfd \notin fds

(* text mentions sub: sub occurs in it as a run of fragments.              *)
Mentions(text, sub) ==
  \E i \in 1..(Len(text) - Len(sub) + 1) :
    SubSeq(text, i, i + Len(sub) - 1) = sub

(* open by index got as far as the bind on a controller that is held.      *)
BindOnHeld ==
  /\ nid # -1 /\ npc = "done" /\ nid \in held
  /\ \E i \in 1..Len(log) : log[i].op = "bind"

(* C9 as claimed: open by index on a held controller fails at the bind,    *)
(* returns no Socket, and the failure names the bind and the index.        *)
C9_BindFailureNamesIndex ==
  BindOnHeld =>
    /\ nsock = <<>>
    /\ Mentions(nerr, <<"can't bind socket to hci user channel">>)
    /\ Mentions(nerr, Itoa(nid))

(* C9 amended: open by index on a held controller fails at the bind, which *)
(* is the last call issued; no Socket is returned, the descriptor stays    *)
(* unbound, and the failure is "can't bind socket to hci user channel:     *)
(* EBUSY", which does not name the index.                                  *)
C9_BindFailureWrapped ==
  BindOnHeld =>
    /\ log[Len(log)] = [op |-> "bind", dev |-> nid, err |-> "EBUSY"]
    /\ nsock = <<>>
    /\ bound = -1
    /\ nerr = <<"can't bind socket to hci user channel", ": ", "EBUSY">>
    /\ ~Mentions(nerr, Itoa(nid))

(* C9 witness: NewSocket(3) with hci3 held has returned from the bind.     *)
C9_Witness ==
  /\ BindOnHeld /\ nid = 3
  /\ log[Len(log)].op = "bind" /\ log[Len(log)].err = "EBUSY"

(* ========================= Up / Down / Info ============================ *)
(* C10 as claimed: a call of Up, Down or Info that got its transient       *)
(* socket has, when it returns, issued exactly one ioctl on it and closed  *)
(* it.                                                                     *)
C10_TransientSocketClosed ==
  (tpc = "done" /\ tfd # 0) => (tioctls = 1 /\ tfd \notin fds)

(* ====================== Close called a second time ===================== *)
(* C11: a second Close dies at close(s.closed): it stops there with the    *)
(* process, having taken no lock, written no shutdown frame and released   *)
(* nothing; only one Close ever gets past the signal, so the descriptor is *)
(* released at most once however many times Close is called.               *)
C11_SecondCloseFatal ==
  /\ [](/\ releases <= 1
        /\ Cardinality({c \in Closers : cpc[c] \notin {"idle", "panic"}}) <= 1
        /\ panicked <=> \E c \in Closers : cpc[c] = "panic"
        /\ \A c \in Closers :
             cpc[c] = "panic" =>
               /\ closed
               /\ cwres[c] = "none" /\ cres[c] = "none"
               /\ rmu # c /\ wmu # c
               /\ \A x \in kw : x.who # c)
  /\ [][/\ \A c \in Closers :
             (closed /\ cpc[c] = "idle" /\ cpc'[c] # "idle") =>
               /\ cpc'[c] = "panic" /\ panicked'
               /\ releases' = releases /\ fds' = fds /\ kw' = kw
               /\ rmu' = rmu /\ wmu' = wmu
        /\ panicked => UNCHANGED vars]_vars

(* C11 witness: one Close has run to its end and released the descriptor,  *)
(* and a later Close on the same Socket has panicked.                      *)
C11_Witness ==
  \E c, c2 \in Closers :
    /\ c # c2 /\ cpc[c] = "done" /\ cpc[c2] = "panic"
    /\ releases = 1 /\ SockFd \notin fds

(* ============================ ioR / ioW ================================ *)
(* The number held in bits lo .. lo+w-1 of a code.                         *)
RECURSIVE Field(_, _, _)
Field(code, lo, w) ==
  IF w = 0 THEN 0
  ELSE (IF lo \in code THEN 1 ELSE 0) + 2 * Field(code, lo + 1, w - 1)

Fits == inr < 256 /\ it < 256 /\ isize < 16384

(* C12: for arguments that fit their fields, ioR and ioW give a code that   *)
(* holds nr in bits 0-7, t in bits 8-15, size in bits 16-29 and the        *)
(* direction in bits 30-31 (2 for ioR, 1 for ioW), with no other bit set;  *)
(* the two codes agree in every bit but 30 and 31.                         *)
C12_CodesDifferInDirectionOnly ==
  Fits =>
    /\ "R" \in icalls =>
         /\ Field(rcode, 0, 8) = inr
         /\ Field(rcode, 8, 8) = it
         /\ Field(rcode, 16, 14) = isize
         /\ Field(rcode, 30, 2) = 2
         /\ rcode \subseteq 0..31
    /\ "W" \in icalls =>
         /\ Field(wcode, 0, 8) = inr
         /\ Field(wcode, 8, 8) = it
         /\ Field(wcode, 16, 14) = isize
         /\ Field(wcode, 30, 2) = 1
         /\ wcode \subseteq 0..31
    /\ icalls = {"R", "W"} => rcode \ {30, 31} = wcode \ {30, 31}

(* C12 witness: both codes built for ('H', 201, 4): ioW gives HCIDEVUP,    *)
(* 0x400448c9, and ioR the same with bit 31 in place of bit 30.            *)
C12_Witness ==
  /\ icalls = {"R", "W"} /\ it = 72 /\ inr = 201 /\ isize = 4
  /\ wcode = {0, 3, 6, 7, 11, 14, 18, 30}
  /\ wcode = hciUpDevice
  /\ rcode = {0, 3, 6, 7, 11, 14, 18, 31}

(* ======================== the open sequence ============================ *)
Entry(op, dev, err) == [op |-> op, dev |-> dev, err |-> err]

(* C13: open issues down, up, down, bind, the drain (poll and, with input  *)
(* ready, one read) and then builds the Socket, each step right after the  *)
(* success of the one before: the bind follows a successful down, up, down *)
(* on the same controller, and the Socket is built only after a successful *)
(* bind, with its channel open and both mutexes unlocked.                  *)
C13_OpenStepOrder ==
  /\ \A i \in 1..Len(log) :
       LET e == log[i] IN
       /\ e.op = "down" =>
            /\ i > 1
            /\ \/ log[i - 1] = Entry("open", e.dev, "")
               \/ /\ i > 3
                  /\ log[i - 1] = Entry("up", e.dev, "")
                  /\ log[i - 2] = Entry("down", e.dev, "")
                  /\ log[i - 3] = Entry("open", e.dev, "")
       /\ e.op = "up" =>
            /\ i > 2
            /\ log[i - 1] = Entry("down", e.dev, "")
            /\ log[i - 2] = Entry("open", e.dev, "")
       /\ e.op = "bind" =>
            /\ i > 4
            /\ log[i - 1] = Entry("down", e.dev, "")
            /\ log[i - 2] = Entry("up", e.dev, "")
            /\ log[i - 3] = Entry("down", e.dev, "")
            /\ log[i - 4] = Entry("open", e.dev, "")
       /\ e.op = "poll" => (i > 1 /\ log[i - 1] = Entry("bind", e.dev, ""))
       /\ e.op = "read" => (i > 1 /\ log[i - 1] = Entry("poll", e.dev, "POLLIN"))
       /\ e.op = "construct" =>
            /\ i > 2
            /\ \/ /\ log[i - 1].op = "poll" /\ log[i - 1].err # "POLLIN"
                  /\ log[i - 2] = Entry("bind", e.dev, "")
               \/ /\ i > 3
                  /\ log[i - 1].op = "read"
                  /\ log[i - 3] = Entry("bind", e.dev, "")
            /\ bound = e.dev
            /\ nsock = <<[fd |-> nfd, closed |-> FALSE,
                          rmu |-> <<"none", 0>>, wmu |-> <<"none", 0>>]>>
  /\ nsock # <<>> =>
       (log # <<>> /\ log[Len(log)].op = "construct" /\ nfd \in fds)

(* C13 witness: NewSocket(1) has returned a Socket after down, up, down,   *)
(* bind, poll with input ready, and the draining read.                     *)
C13_Witness ==
  /\ npc = "done" /\ nid = 1 /\ nsock # <<>>
  /\ log = <<Entry("socket", -1, ""), Entry("open", 1, ""),
             Entry("down", 1, ""), Entry("up", 1, ""), Entry("down", 1, ""),
             Entry("bind", 1, ""), Entry("poll", 1, "POLLIN"),
             Entry("read", 1, ""), Entry("construct", 1, "")>>

(* ==================== failures in the open sequence ==================== *)
(* A failure of the drain: poll failed, or the read of stale input failed. *)
IsDrainFailure(e) ==
  \/ e.op = "poll" /\ e.err = "EINTR"
  \/ e.op = "read" /\ e.err # ""

(* C14 as claimed: a failure of any step of open, the drain's poll and     *)
(* read included, is the last thing open does on that controller, and      *)
(* NewSocket by index then returns a failure and no Socket.                *)
C14_AnyFailureAborts ==
  \A i \in 1..Len(log) :
    (IsStepFailure(log[i]) \/ IsDrainFailure(log[i])) =>
      /\ i < Len(log) => log[i + 1].op = "open"
      /\ (nid # -1 /\ npc = "done") => (nsock = <<>> /\ nerr # <<>>)

(* C14 amended: a failure of the first down, the up, the second down or    *)
(* the bind ends open on that controller: by index it is the last call and *)
(* NewSocket returns no Socket and "<cause of the step>: <errno>"; in the  *)
(* loop the next call is the open of the next candidate and msg carries    *)
(* (hci<id>: <cause>: <errno>). A failure of the drain's poll or read is   *)
(* ignored: the Socket is built next and returned with a nil error.        *)
C14_StepFailureAborts ==
  \A i \in 1..Len(log) :
    LET e == log[i] IN
    /\ IsStepFailure(e) =>
         /\ i < Len(log) => (nid = -1 /\ log[i + 1] = Entry("open", e.dev + 1, ""))
         /\ nid # -1 =>
              /\ i = Len(log) /\ npc = "done" /\ nsock = <<>>
              /\ nerr = <<CauseOf(e.op), ": ", e.err>>
         /\ nid = -1 =>
              Mentions(msg, <<"(hci">> \o Itoa(e.dev) \o
                            <<": ", CauseOf(e.op), ": ", e.err, ")">>)
    /\ IsDrainFailure(e) =>
         /\ npc \in {"construct", "done"}
         /\ i < Len(log) => (i + 1 = Len(log) /\ log[i + 1].op = "construct")
         /\ npc = "done" => (nsock # <<>> /\ nerr = <<>>)

(* C14 witness: NewSocket(2) has returned because the second down failed.  *)
C14_Witness ==
  /\ npc = "done" /\ nid = 2 /\ nsock = <<>>
  /\ log = <<Entry("socket", -1, ""), Entry("open", 2, ""),
             Entry("down", 2, ""), Entry("up", 2, ""),
             Entry("down", 2, "ENODEV")>>
  /\ nerr = <<"can't down device", ": ", "ENODEV">>

(* ====================== the candidates probed ========================== *)
Reported == {req.ids[k] : k \in 1..req.devNum}

(* C15 as claimed: NewSocket(-1) runs open on the ids the device list      *)
(* reported and on no other: every probe is on a reported id, and with all *)
(* candidates failing every reported id has been probed.                   *)
C15_ProbesReportedIds ==
  (AutoSelect /\ ListObtained) =>
    /\ \A i \in OpenPos : log[i].dev \in Reported
    /\ (npc = "done" /\ nsock = <<>>) =>
         {log[i].dev : i \in OpenPos} = Reported

(* ===================== the steps of one Close ========================== *)
(* C16: Close signals, then writes 01 09 10 00, then releases: its write   *)
(* is in progress only with the channel closed and nothing released, the   *)
(* release comes only after that write has returned, and what Close        *)
(* returns is what close(2) answered, whatever the write returned.         *)
C16_CloseOrderAndResult ==
  \A c \in Closers :
    /\ \A x \in kw :
         x.who = c =>
           /\ x.buf = <<1, 9, 16, 0>>
           /\ cpc[c] = "wsys" /\ closed /\ releases = 0 /\ SockFd \in fds
    /\ cpc[c] \in {"wlock", "wsys"} =>
         (closed /\ cwres[c] = "none" /\ releases = 0)
    /\ cpc[c] \in {"wunlock", "lock", "release"} =>
         (closed /\ cwres[c] \in {"ok", "err"} /\ releases = 0)
    /\ cpc[c] \in {"unlock", "done"} =>
         /\ cwres[c] \in {"ok", "err"}
         /\ relres \in {"ok", "err"}
         /\ cres[c] = relres
    /\ cpc[c] \notin {"unlock", "done"} => cres[c] = "none"

(* C16 witness: a Close whose shutdown-frame write failed has returned     *)
(* success, close(2) having succeeded.                                     *)
C16_Witness ==
  \E c \in Closers :
    cpc[c] = "done" /\ cwres[c] = "err" /\ relres = "ok" /\ cres[c] = "ok"

(* ===================== reads after the release ========================= *)
(* C17 as claimed: no read(2) is issued on the descriptor once Close has   *)
(* released it.                                                            *)
C17_NoReadAfterRelease ==
  /\ ~staleRead
  /\ kr # {} => SockFd \in fds

====
